---- MODULE Spec2Model ----
(***************************************************************************)
(* Contact manager of goit-pycore-hw-07: the Field/Phone/Birthday/Record/  *)
(* AddressBook classes of task_01_address_book.py and                      *)
(* task_02_assistant_bot.py, and the command loop of the latter.           *)
(*                                                                         *)
(* Text is modelled as a sequence of one-character strings, so that        *)
(* validation, parsing and formatting are computed character by character. *)
(***************************************************************************)
EXTENDS Integers, Sequences, FiniteSets, TLC

\* None where a text is expected (an error raised, a message printed)
None == "None"

\* An optional value is a sequence of no element (None) or one
Nothing == <<>>
Some(v) == <<v>>

(***************************************************************************)
(* Characters                                                              *)
(***************************************************************************)
AsciiDigits == {"0", "1", "2", "3", "4", "5", "6", "7", "8", "9"}

\* ARABIC-INDIC DIGIT THREE, a character of Unicode category Nd that is not
\* an ASCII digit; written by its code point.
ArabicThree == "U+0663"

\* The characters the str pattern \d matches (Unicode decimal digits).
UnicodeDigits == AsciiDigits \cup {ArabicThree}

DigitVal(c) ==
    CASE c = "0" -> 0 [] c = "1" -> 1 [] c = "2" -> 2 [] c = "3" -> 3
      [] c = "4" -> 4 [] c = "5" -> 5 [] c = "6" -> 6 [] c = "7" -> 7
      [] c = "8" -> 8 [] c = "9" -> 9

DigitChar(n) ==
    CASE n = 0 -> "0" [] n = 1 -> "1" [] n = 2 -> "2" [] n = 3 -> "3"
      [] n = 4 -> "4" [] n = 5 -> "5" [] n = 6 -> "6" [] n = 7 -> "7"
      [] n = 8 -> "8" [] n = 9 -> "9"

Rep(c, n) == [i \in 1..n |-> c]

\* int(s) of a sequence of ASCII digits
RECURSIVE IntOf(_)
IntOf(s) ==
    IF Len(s) = 0 THEN 0
    ELSE 10 * IntOf(SubSeq(s, 1, Len(s) - 1)) + DigitVal(s[Len(s)])

AllAsciiDigits(s) == \A i \in 1..Len(s) : s[i] \in AsciiDigits

(***************************************************************************)
(* datetime.date, as the standard library computes it                      *)
(***************************************************************************)
MINYEAR == 1

_is_leap(year) == year % 4 = 0 /\ (year % 100 # 0 \/ year % 400 = 0)

_days_in_month(year, month) ==
    IF month = 2 /\ _is_leap(year) THEN 29
    ELSE <<31, 28, 31, 30, 31, 30, 31, 31, 30, 31, 30, 31>>[month]

_days_before_year(year) ==
    LET y == year - 1 IN y * 365 + (y \div 4) - (y \div 100) + (y \div 400)

_DAYS_BEFORE_MONTH ==
    <<0, 31, 59, 90, 120, 151, 181, 212, 243, 273, 304, 334>>

_days_before_month(year, month) ==
    _DAYS_BEFORE_MONTH[month] + (IF month > 2 /\ _is_leap(year) THEN 1 ELSE 0)

\* date.toordinal()
_ymd2ord(d) ==
    _days_before_year(d.year) + _days_before_month(d.year, d.month) + d.day

\* date.fromordinal(n)
_ord2ymd(n0) ==
    LET n1    == n0 - 1
        n400  == n1 \div 146097
        r400  == n1 % 146097
        n100  == r400 \div 36524
        r100  == r400 % 36524
        n4    == r100 \div 1461
        r4    == r100 % 1461
        n1y   == r4 \div 365
        n     == r4 % 365
        year  == n400 * 400 + 1 + n100 * 100 + n4 * 4 + n1y
    IN  IF n1y = 4 \/ n100 = 4
        THEN [year |-> year - 1, month |-> 12, day |-> 31]
        ELSE
          LET leapyear == n1y = 3 /\ (n4 # 24 \/ n100 = 3)
              month0   == (n + 50) \div 32
              leapAdd(m) == IF m > 2 /\ leapyear THEN 1 ELSE 0
              prec0    == _DAYS_BEFORE_MONTH[month0] + leapAdd(month0)
              month    == IF prec0 > n THEN month0 - 1 ELSE month0
              dim      == IF month = 2 /\ leapyear THEN 29
                          ELSE <<31, 28, 31, 30, 31, 30, 31, 31, 30, 31, 30, 31>>[month]
              prec     == IF prec0 > n THEN prec0 - dim ELSE prec0
          IN  [year |-> year, month |-> month, day |-> n - prec + 1]

\* date.weekday(): Monday is 0, Sunday is 6
weekday(d) == (_ymd2ord(d) + 6) % 7

\* the check the date constructor makes on its fields
_check_date_fields(year, month, day) ==
    /\ year >= MINYEAR
    /\ month \in 1..12
    /\ day \in 1.._days_in_month(year, month)

\* date.replace(year=y): the new date, or Nothing where the constructor
\* raises ValueError (29 February in a year that is not a leap year)
replace_year(d, y) ==
    IF _check_date_fields(y, d.month, d.day)
    THEN Some([year |-> y, month |-> d.month, day |-> d.day])
    ELSE Nothing

\* date + timedelta(days=k)
plus_days(d, k) == _ord2ymd(_ymd2ord(d) + k)

Pad2(n) == <<DigitChar(n \div 10), DigitChar(n % 10)>>

Pad4(n) ==
    <<DigitChar(n \div 1000), DigitChar((n \div 100) % 10),
      DigitChar((n \div 10) % 10), DigitChar(n % 10)>>

\* date.strftime("%d.%m.%Y")
strftime(d) == Pad2(d.day) \o <<".">> \o Pad2(d.month) \o <<".">> \o Pad4(d.year)

\* datetime.strptime(value, "%d.%m.%Y").date(): the date, or Nothing where
\* strptime raises ValueError.  %d is 3[0-1]|[1-2]\d|0[1-9]|[1-9]| [1-9],
\* %m is 1[0-2]|0[1-9]|[1-9], %Y is four digits, the dots are literal and
\* nothing may remain after the match.
DotsOf(s) == {i \in 1..Len(s) : s[i] = "."}

MatchDay(p) ==
    \/ Len(p) = 2 /\ AllAsciiDigits(p) /\ IntOf(p) \in 1..31
    \/ Len(p) = 1 /\ AllAsciiDigits(p) /\ IntOf(p) \in 1..9
    \/ Len(p) = 2 /\ p[1] = " " /\ p[2] \in AsciiDigits /\ DigitVal(p[2]) \in 1..9

MatchMonth(p) ==
    \/ Len(p) = 2 /\ AllAsciiDigits(p) /\ IntOf(p) \in 1..12
    \/ Len(p) = 1 /\ AllAsciiDigits(p) /\ IntOf(p) \in 1..9

MatchYear(p) == Len(p) = 4 /\ AllAsciiDigits(p)

DayOf(p) == IF p[1] = " " THEN DigitVal(p[2]) ELSE IntOf(p)

strptime(value) ==
    LET dots == DotsOf(value) IN
    IF Cardinality(dots) # 2 THEN Nothing
    ELSE
      LET i  == CHOOSE k \in dots : \A j \in dots : k <= j
          j  == CHOOSE k \in dots : \A l \in dots : l <= k
          dp == SubSeq(value, 1, i - 1)
          mp == SubSeq(value, i + 1, j - 1)
          yp == SubSeq(value, j + 1, Len(value))
      IN  IF MatchDay(dp) /\ MatchMonth(mp) /\ MatchYear(yp)
             /\ _check_date_fields(IntOf(yp), IntOf(mp), DayOf(dp))
          THEN Some([year |-> IntOf(yp), month |-> IntOf(mp), day |-> DayOf(dp)])
          ELSE Nothing

(***************************************************************************)
(* Field, Phone, Birthday, Record                                          *)
(***************************************************************************)
ErrPhone  == "Phone number must be 10 digits."
ErrExists == "Phone {phone_number} already exists."
ErrDate   == "Invalid date format. Use DD.MM.YYYY."

\* Phone._is_valid with re.match in the place of re.fullmatch: text may follow
\* the ten digits
_is_valid_match(value) ==
    Len(value) >= 10 /\ \A i \in 1..10 : value[i] \in UnicodeDigits

\* Phone._is_valid: re.fullmatch(r"\d{10}", value)
_is_valid(value) ==
    Len(value) = 10 /\ \A i \in 1..Len(value) : value[i] \in UnicodeDigits

\* Record.__init__
Record(name) == [name |-> name, phones |-> <<>>, birthday |-> Nothing]

\* Record.find_phone: the position of the first phone with that value, 0 for None
find_phone(rec, phone_number) ==
    LET hits == {i \in 1..Len(rec.phones) : rec.phones[i] = phone_number}
    IN  IF hits = {} THEN 0 ELSE CHOOSE i \in hits : \A j \in hits : i <= j

\* list.remove of the element at position i
RemoveAt(s, i) == SubSeq(s, 1, i - 1) \o SubSeq(s, i + 1, Len(s))

\* A method's outcome: the record as the call leaves it, and the error raised
Ok(rec)         == [rec |-> rec, err |-> None]
Raise(rec, err) == [rec |-> rec, err |-> err]

\* task_01 Record.add_phone
add_phone_t01(rec, phone_number) ==
    IF ~_is_valid(phone_number) THEN Raise(rec, ErrPhone)
    ELSE Ok([rec EXCEPT !.phones = Append(@, phone_number)])

\* task_02 Record.add_phone without the Phone constructor: the number is
\* appended as given
add_phone_t02_unvalidated(rec, phone_number) ==
    IF find_phone(rec, phone_number) # 0 THEN Raise(rec, ErrExists)
    ELSE Ok([rec EXCEPT !.phones = Append(@, phone_number)])

\* task_02 Record.add_phone
add_phone_t02(rec, phone_number) ==
    IF find_phone(rec, phone_number) # 0 THEN Raise(rec, ErrExists)
    ELSE IF ~_is_valid(phone_number) THEN Raise(rec, ErrPhone)
    ELSE Ok([rec EXCEPT !.phones = Append(@, phone_number)])

\* Record.remove_phone
remove_phone(rec, phone_number) ==
    LET i == find_phone(rec, phone_number)
    IN  IF i = 0 THEN Ok(rec) ELSE Ok([rec EXCEPT !.phones = RemoveAt(@, i)])

\* task_01 Record.edit_phone: remove the old phone, then add the new one
edit_phone_t01(rec, old_number, new_number) ==
    LET i == find_phone(rec, old_number)
    IN  IF i = 0 THEN Ok(rec)
        ELSE add_phone_t01([rec EXCEPT !.phones = RemoveAt(@, i)], new_number)

\* task_02 Record.edit_phone without the test of the phone found: the new
\* number is added also when the old one is not on the record
edit_phone_t02_unguarded(rec, old_number, new_number) ==
    LET i == find_phone(rec, old_number)
        r == add_phone_t02(rec, new_number)
    IN  IF r.err # None THEN r
        ELSE IF i = 0 THEN r
        ELSE Ok([r.rec EXCEPT !.phones = RemoveAt(@, i)])

\* task_02 Record.edit_phone: add the new phone, then remove the old one
edit_phone_t02(rec, old_number, new_number) ==
    LET i == find_phone(rec, old_number)
    IN  IF i = 0 THEN Ok(rec)
        ELSE LET r == add_phone_t02(rec, new_number)
             IN  IF r.err # None THEN r
                 ELSE Ok([r.rec EXCEPT !.phones = RemoveAt(@, i)])

\* Birthday.__init__ and Record.add_birthday
add_birthday(rec, birthday_str) ==
    LET d == strptime(birthday_str)
    IN  IF d = Nothing THEN Raise(rec, ErrDate)
        ELSE Ok([rec EXCEPT !.birthday =
                     Some([value |-> birthday_str, date |-> d[1]])])

(***************************************************************************)
(* AddressBook: a dict, modelled as the sequence of its values in          *)
(* iteration order, one per key                                            *)
(***************************************************************************)
KeyIndex(data, name) ==
    LET hits == {i \in 1..Len(data) : data[i].name = name}
    IN  IF hits = {} THEN 0 ELSE CHOOSE i \in hits : TRUE

\* AddressBook.add_record that deletes the key before it sets it: a record
\* added under a name of the book moves to the end
add_record_reinsert(data, record) ==
    LET i == KeyIndex(data, record.name)
    IN  IF i = 0 THEN Append(data, record) ELSE Append(RemoveAt(data, i), record)

\* AddressBook.add_record: self.data[record.name.value] = record
add_record(data, record) ==
    LET i == KeyIndex(data, record.name)
    IN  IF i = 0 THEN Append(data, record) ELSE [data EXCEPT ![i] = record]

\* AddressBook.find
find(data, name) ==
    LET i == KeyIndex(data, name) IN IF i = 0 THEN Nothing ELSE Some(data[i])

\* AddressBook.delete
delete(data, name) ==
    LET i == KeyIndex(data, name) IN IF i = 0 THEN data ELSE RemoveAt(data, i)

\* the store after a method changed the record found under name
Store(data, name, rec) == [data EXCEPT ![KeyIndex(data, name)] = rec]

ErrReplace == "day is out of range for month"

\* the shift with one day for a Saturday as for a Sunday
congratulation_date_one_day(birthday_this_year) ==
    IF weekday(birthday_this_year) = 5 THEN plus_days(birthday_this_year, 1)
    ELSE IF weekday(birthday_this_year) = 6 THEN plus_days(birthday_this_year, 1)
    ELSE birthday_this_year

\* the shift of a weekend occurrence to the following Monday
congratulation_date(birthday_this_year) ==
    IF weekday(birthday_this_year) = 5 THEN plus_days(birthday_this_year, 2)
    ELSE IF weekday(birthday_this_year) = 6 THEN plus_days(birthday_this_year, 1)
    ELSE birthday_this_year

\* The body of the loop of get_upcoming_birthdays for one record: the items
\* it appends, and the error date.replace raises
upcoming_of(record, today) ==
    IF record.birthday = Nothing THEN [items |-> <<>>, err |-> None]
    ELSE
      LET this == replace_year(record.birthday[1].date, today.year) IN
      IF this = Nothing THEN [items |-> <<>>, err |-> ErrReplace]
      ELSE
        LET rolled == IF _ymd2ord(this[1]) < _ymd2ord(today)
                      THEN replace_year(this[1], today.year + 1) ELSE this
        IN  IF rolled = Nothing THEN [items |-> <<>>, err |-> ErrReplace]
            ELSE
              LET birthday_this_year == rolled[1]
                  delta_days == _ymd2ord(birthday_this_year) - _ymd2ord(today)
              IN  IF 0 <= delta_days /\ delta_days <= 7
                  THEN [items |->
                          << [name |-> record.name,
                              congratulation_date |->
                                  strftime(congratulation_date(birthday_this_year))] >>,
                        err |-> None]
                  ELSE [items |-> <<>>, err |-> None]

\* AddressBook.get_upcoming_birthdays: the list returned, or the error raised
RECURSIVE upcoming_loop(_, _, _, _)
upcoming_loop(data, today, i, acc) ==
    IF i > Len(data) THEN [list |-> acc, err |-> None]
    ELSE LET r == upcoming_of(data[i], today)
         IN  IF r.err # None THEN [list |-> <<>>, err |-> r.err]
             ELSE upcoming_loop(data, today, i + 1, acc \o r.items)

get_upcoming_birthdays(data, today) == upcoming_loop(data, today, 1, <<>>)

(***************************************************************************)
(* Bot logic of task_02: input_error, parse_input and the handlers.        *)
(* A handler's outcome is the store as it leaves it and the text printed.  *)
(***************************************************************************)
\* str(e) of the ValueError of `name, phone, *_ = args` with too few values
ErrUnpack == "not enough values to unpack"

MsgAdded      == "Contact added."
MsgUpdated    == "Contact updated."
MsgNotFound   == "Contact not found."
MsgChanged    == "Phone number updated for {name}."
MsgPhones     == "{name}: {phones}"
MsgNoPhones   == "{name} has no phone numbers."
MsgNoContacts == "No contacts available."
MsgAll        == "{records}"
MsgAddFirst   == "Contact {name} not found. Add the contact first."
MsgBirthdayAdded == "Birthday added for {name}."
MsgNoContact  == "Contact {name} not found."
MsgBirthday   == "{name}'s birthday is {birthday}"
MsgNoBirthday == "No birthday set for {name}."
MsgNoUpcoming == "No upcoming birthdays this week."
MsgUpcoming   == "{name} should be congratulated on {congratulation_date}"
MsgEmpty      == "Please enter a command."
MsgBye        == "Good bye!"
MsgHello      == "How can I help you?"
MsgInvalid    == "Invalid command."

Handled(data, out) == [data |-> data, out |-> out, result |-> <<>>]

\* add_contact, under input_error
add_contact(args, data) ==
    IF Len(args) < 2 THEN Handled(data, ErrUnpack)
    ELSE
      LET name    == args[1]
          phone   == args[2]
          found   == find(data, name)
          record  == IF found = Nothing THEN Record(name) ELSE found[1]
          book    == IF found = Nothing THEN add_record(data, record) ELSE data
          message == IF found = Nothing THEN MsgAdded ELSE MsgUpdated
      IN  IF Len(phone) = 0 THEN Handled(book, message)
          ELSE LET r == add_phone_t02(record, phone)
               IN  IF r.err # None THEN Handled(Store(book, name, r.rec), r.err)
                   ELSE Handled(Store(book, name, r.rec), message)

\* change_contact, under input_error
change_contact(args, data) ==
    IF Len(args) < 3 THEN Handled(data, ErrUnpack)
    ELSE
      LET name  == args[1]
          found == find(data, name)
      IN  IF found = Nothing THEN Handled(data, MsgNotFound)
          ELSE LET r == edit_phone_t02(found[1], args[2], args[3])
               IN  IF r.err # None THEN Handled(Store(data, name, r.rec), r.err)
                   ELSE Handled(Store(data, name, r.rec), MsgChanged)

\* show_phone, under input_error
show_phone(args, data) ==
    IF Len(args) < 1 THEN Handled(data, ErrUnpack)
    ELSE LET found == find(data, args[1])
         IN  IF found = Nothing THEN Handled(data, MsgNotFound)
             ELSE IF Len(found[1].phones) > 0 THEN Handled(data, MsgPhones)
             ELSE Handled(data, MsgNoPhones)

\* show_all
show_all(data) ==
    IF Len(data) = 0 THEN Handled(data, MsgNoContacts) ELSE Handled(data, MsgAll)

\* add_birthday (the handler), under input_error
add_birthday_cmd(args, data) ==
    IF Len(args) < 2 THEN Handled(data, ErrUnpack)
    ELSE
      LET name  == args[1]
          found == find(data, name)
      IN  IF found = Nothing THEN Handled(data, MsgAddFirst)
          ELSE LET r == add_birthday(found[1], args[2])
               IN  IF r.err # None THEN Handled(Store(data, name, r.rec), r.err)
                   ELSE Handled(Store(data, name, r.rec), MsgBirthdayAdded)

\* show_birthday, under input_error
show_birthday(args, data) ==
    IF Len(args) < 1 THEN Handled(data, ErrUnpack)
    ELSE LET found == find(data, args[1])
         IN  IF found = Nothing THEN Handled(data, MsgNoContact)
             ELSE IF found[1].birthday # Nothing THEN Handled(data, MsgBirthday)
             ELSE Handled(data, MsgNoBirthday)

\* birthdays, under input_error: the ValueError of date.replace is caught
birthdays(args, data, today) ==
    LET upcoming == get_upcoming_birthdays(data, today)
    IN  IF upcoming.err # None THEN Handled(data, upcoming.err)
        ELSE IF Len(upcoming.list) = 0 THEN Handled(data, MsgNoUpcoming)
        ELSE [data |-> data, out |-> MsgUpcoming, result |-> upcoming.list]

\* A line of input is a sequence of tokens: runs of whitespace and words.
Space == <<" ">>
IsSpace(token) == token = Space

\* str.split(): the words of the line
split(user_input) == SelectSeq(user_input, LAMBDA token : ~IsSpace(token))

UpperCase ==
    <<"A", "B", "C", "D", "E", "F", "G", "H", "I", "J", "K", "L", "M",
      "N", "O", "P", "Q", "R", "S", "T", "U", "V", "W", "X", "Y", "Z">>
LowerCase ==
    <<"a", "b", "c", "d", "e", "f", "g", "h", "i", "j", "k", "l", "m",
      "n", "o", "p", "q", "r", "s", "t", "u", "v", "w", "x", "y", "z">>
LowerMap ==
    [c \in {UpperCase[i] : i \in 1..26} |->
        LowerCase[CHOOSE i \in 1..26 : UpperCase[i] = c]]
LowerChar(c) == IF c \in DOMAIN LowerMap THEN LowerMap[c] ELSE c

\* str.lower()
lower(word) == [i \in 1..Len(word) |-> LowerChar(word[i])]

\* parse_input: cmd and args, or Nothing where unpacking the empty list
\* raises ValueError
parse_input(user_input) ==
    LET words == split(user_input)
    IN  IF Len(words) = 0 THEN Nothing
        ELSE Some([cmd |-> lower(words[1]), args |-> Tail(words)])

CmdHello == <<"h", "e", "l", "l", "o">>
CmdAdd == <<"a", "d", "d">>
CmdChange == <<"c", "h", "a", "n", "g", "e">>
CmdPhone == <<"p", "h", "o", "n", "e">>
CmdAll == <<"a", "l", "l">>
CmdAddBirthday == <<"a", "d", "d", "-", "b", "i", "r", "t", "h", "d", "a", "y">>
CmdShowBirthday == <<"s", "h", "o", "w", "-", "b", "i", "r", "t", "h", "d", "a", "y">>
CmdBirthdays == <<"b", "i", "r", "t", "h", "d", "a", "y", "s">>
CmdExit == <<"e", "x", "i", "t">>
CmdClose == <<"c", "l", "o", "s", "e">>

\* One pass of the while loop of main: the store, the command parsed, the
\* text printed, the list of upcoming birthdays printed, and where the
\* program is afterwards
Step(h, cmd, pc) ==
    [data |-> h.data, cmd |-> cmd, out |-> h.out, result |-> h.result, pc |-> pc]

\* the dispatch on the command
dispatch(command, args, data, today) ==
    IF command \in {CmdClose, CmdExit}
         THEN Step(Handled(data, MsgBye), Some(command), "exited")
    ELSE IF command = CmdHello
         THEN Step(Handled(data, MsgHello), Some(command), "running")
    ELSE IF command = CmdAdd
         THEN Step(add_contact(args, data), Some(command), "running")
    ELSE IF command = CmdChange
         THEN Step(change_contact(args, data), Some(command), "running")
    ELSE IF command = CmdPhone
         THEN Step(show_phone(args, data), Some(command), "running")
    ELSE IF command = CmdAll
         THEN Step(show_all(data), Some(command), "running")
    ELSE IF command = CmdAddBirthday
         THEN Step(add_birthday_cmd(args, data), Some(command), "running")
    ELSE IF command = CmdShowBirthday
         THEN Step(show_birthday(args, data), Some(command), "running")
    ELSE IF command = CmdBirthdays
         THEN Step(birthdays(args, data, today), Some(command), "running")
    ELSE Step(Handled(data, MsgInvalid), Some(command), "running")

\* The body of the while loop.  parse_input is called outside input_error:
\* where it raises, the error leaves main and the program ends with a traceback.
main(user_input, data, today) ==
    IF Len(user_input) = 0 THEN Step(Handled(data, MsgEmpty), Nothing, "running")
    ELSE
      LET parsed == parse_input(user_input) IN
      IF parsed = Nothing THEN Step(Handled(data, None), Nothing, "crashed")
      ELSE dispatch(parsed[1].cmd, parsed[1].args, data, today)

(***************************************************************************)
(* Bounds and inputs                                                       *)
(***************************************************************************)
\* the most phones the records of the book hold together
MaxPhones == 2

Ann == <<"A", "n", "n">>
Bob == <<"B", "o", "b">>
Names == {Ann, Bob}

P1        == Rep("1", 10)
PArabic   == [Rep("2", 10) EXCEPT ![3] = ArabicThree]
PShort    == Rep("1", 9)
PLetter   == [Rep("1", 10) EXCEPT ![5] = "a"]
PNewline  == Rep("1", 10) \o <<"\n">>
ValidPhones == {P1, PArabic}
\* phone arguments of the command lines (a word holds no whitespace)
LinePhones  == ValidPhones \cup {PShort}
PhoneInputs == LinePhones \cup {PLetter, PNewline}

BNewYear  == <<"1", ".", "1", ".", "2", "0", "0", "0">>
BDec31    == <<"3", "1", ".", "1", "2", ".", "1", "9", "9", "9">>
BLeap     == <<"2", "9", ".", "0", "2", ".", "2", "0", "0", "0">>
BApril31  == <<"3", "1", ".", "0", "4", ".", "2", "0", "0", "0">>
BIso      == <<"2", "0", "0", "0", "-", "0", "1", "-", "0", "1">>
ValidBirthdays == {BNewYear, BDec31, BLeap}
LineBirthdays  == ValidBirthdays \cup {BApril31}
BirthdayInputs == LineBirthdays \cup {BIso}

Date(y, m, d) == [year |-> y, month |-> m, day |-> d]

\* Values of date.today().  31 December is a Saturday in 2022 and a Tuesday
\* in 2024; 1 January is a Sunday in 2023, a Monday in 2024 and a Wednesday in
\* 2025; 2024 is a leap year, 2022, 2023 and 2025 are not.
Todays ==
    { Date(2022, 12, 24), Date(2022, 12, 26), Date(2024, 1, 1),
      Date(2024, 2, 25), Date(2024, 12, 28) }

\* the days on which the birthdays command is given
LineTodays == { Date(2022, 12, 26), Date(2024, 1, 1) }

\* records handed to add_record: a new Record, with a birthday or without
NewRecords ==
    {Record(n) : n \in Names}
      \cup {add_birthday(Record(n), b).rec : n \in Names, b \in ValidBirthdays}

WordEXIT  == <<"E", "X", "I", "T">>
WordClose == <<"C", "l", "o", "s", "e">>
WordHelp  == <<"h", "e", "l", "p">>

RECURSIVE Line(_)
\* the words joined by single spaces
Line(words) ==
    IF Len(words) <= 1 THEN words
    ELSE <<Head(words), Space>> \o Line(Tail(words))

Lines ==
    { <<>>, <<Space>>, <<Space, CmdHello>>, <<CmdHello, Space>> }
      \cup { <<c>> : c \in { CmdHello, CmdAdd, CmdChange, CmdPhone, CmdAll,
                             CmdAddBirthday, CmdShowBirthday, CmdBirthdays,
                             CmdExit, CmdClose, WordEXIT, WordClose, WordHelp } }
      \cup { Line(<<c, n>>) :
               c \in {CmdAdd, CmdChange, CmdPhone, CmdAddBirthday, CmdShowBirthday},
               n \in Names }
      \cup { Line(<<CmdAdd, n, p>>) : n \in Names, p \in LinePhones }
      \cup { Line(<<CmdAdd, Ann, P1, PArabic>>) }
      \cup { Line(<<CmdChange, n, p>>) : n \in Names, p \in ValidPhones }
      \cup { Line(<<CmdChange, n, p, q>>) :
               n \in Names, p \in ValidPhones, q \in LinePhones }
      \cup { Line(<<CmdAddBirthday, n, b>>) : n \in Names, b \in LineBirthdays }

\* date.today() matters to the birthdays command only
IsBirthdays(user_input) ==
    parse_input(user_input) # Nothing /\ parse_input(user_input)[1].cmd = CmdBirthdays

(***************************************************************************)
(* State                                                                   *)
(***************************************************************************)
VARIABLES
    variant,  \* the source file whose classes run: "task_01" or "task_02"
    data,     \* AddressBook.data
    pc,       \* "running", "exited" (after Good bye!) or "crashed" (an uncaught error)
    last      \* the last operation: its name, the command main parsed, the error
              \* raised or text printed, the date read as today, the list of
              \* upcoming birthdays returned

vars == <<variant, data, pc, last>>

Last(op, cmd, out, today, result) ==
    [op |-> op, cmd |-> cmd, out |-> out, today |-> today, result |-> result]

Init ==
    /\ variant \in {"task_01", "task_02"}
    /\ data = <<>>
    /\ pc = "running"
    /\ last = Last("start", Nothing, None, Nothing, <<>>)

Keys(d) == {d[i].name : i \in 1..Len(d)}

\* the record under a key of the store
Rec(d, name) == d[KeyIndex(d, name)]

RECURSIVE TotalPhones(_)
TotalPhones(d) ==
    IF Len(d) = 0 THEN 0 ELSE Len(Head(d).phones) + TotalPhones(Tail(d))

add_phone(v, rec, phone_number) ==
    IF v = "task_01" THEN add_phone_t01(rec, phone_number)
    ELSE add_phone_t02(rec, phone_number)

edit_phone(v, rec, old_number, new_number) ==
    IF v = "task_01" THEN edit_phone_t01(rec, old_number, new_number)
    ELSE edit_phone_t02(rec, old_number, new_number)

\* a method of a record of the store, with the outcome it computes
Method(op, name, outcome) ==
    /\ \E r \in {outcome} :
           /\ data' = Store(data, name, r.rec)
           /\ last' = Last(op, Nothing, r.err, Nothing, <<>>)
    /\ UNCHANGED <<variant, pc>>

AddPhone(name, phone_number) ==
    /\ pc = "running"
    /\ name \in Keys(data)
    /\ TotalPhones(data) < MaxPhones
    /\ Method("add_phone", name, add_phone(variant, Rec(data, name), phone_number))

RemovePhone(name, phone_number) ==
    /\ pc = "running"
    /\ name \in Keys(data)
    /\ Method("remove_phone", name, remove_phone(Rec(data, name), phone_number))

EditPhone(name, old_number, new_number) ==
    /\ pc = "running"
    /\ name \in Keys(data)
    /\ Method("edit_phone", name,
              edit_phone(variant, Rec(data, name), old_number, new_number))

AddBirthday(name, birthday_str) ==
    /\ pc = "running"
    /\ name \in Keys(data)
    /\ Method("add_birthday", name, add_birthday(Rec(data, name), birthday_str))

AddRecord(record) ==
    /\ pc = "running"
    /\ data' = add_record(data, record)
    /\ last' = Last("add_record", Nothing, None, Nothing, <<>>)
    /\ UNCHANGED <<variant, pc>>

Delete(name) ==
    /\ pc = "running"
    /\ data' = delete(data, name)
    /\ last' = Last("delete", Nothing, None, Nothing, <<>>)
    /\ UNCHANGED <<variant, pc>>

GetUpcomingBirthdays(today) ==
    /\ pc = "running"
    /\ \E r \in {get_upcoming_birthdays(data, today)} :
           last' = Last("get_upcoming_birthdays", Nothing, r.err, Some(today), r.list)
    /\ UNCHANGED <<variant, data, pc>>

\* one line read by the loop of main (task_02)
MainLoop(user_input, today) ==
    /\ pc = "running"
    /\ variant = "task_02"
    /\ \E s \in {main(user_input, data, today)} :
           /\ TotalPhones(s.data) <= MaxPhones
           /\ data' = s.data
           /\ pc' = s.pc
           /\ last' = Last("main", s.cmd, s.out,
                           IF s.cmd = Some(CmdBirthdays) THEN Some(today) ELSE Nothing,
                           s.result)
    /\ UNCHANGED variant

Next ==
    \/ \E n \in Names, p \in PhoneInputs : AddPhone(n, p)
    \/ \E n \in Names, p \in LinePhones : RemovePhone(n, p)
    \/ \E n \in Names, p \in ValidPhones, q \in PhoneInputs : EditPhone(n, p, q)
    \/ \E n \in Names, b \in BirthdayInputs : AddBirthday(n, b)
    \/ \E r \in NewRecords : AddRecord(r)
    \/ \E n \in Names : Delete(n)
    \/ \E t \in Todays : GetUpcomingBirthdays(t)
    \/ \E u \in Lines :
         \E t \in IF IsBirthdays(u) THEN LineTodays ELSE {Date(2024, 1, 1)} :
           MainLoop(u, t)

Spec == Init /\ [][Next]_vars

(***************************************************************************)
(* Properties                                                              *)
(***************************************************************************)
\* the day count of the next occurrence of the month and day of a birthday:
\* this year's, or next year's when this year's is before today
NextOccurrence(birthday, today) ==
    LET thisYear == _ymd2ord(Date(today.year, birthday.month, birthday.day))
    IN  IF thisYear < _ymd2ord(today)
        THEN _ymd2ord(Date(today.year + 1, birthday.month, birthday.day))
        ELSE thisYear

InWindow(birthday, today) ==
    NextOccurrence(birthday, today) - _ymd2ord(today) \in 0..7

\* 0 for Monday ... 5 for Saturday, 6 for Sunday; 1 January 2024 is a Monday
DayOfWeek(ord) == (ord - _ymd2ord(Date(2024, 1, 1))) % 7

ResultNames(result) == {result[k].name : k \in 1..Len(result)}

\* get_upcoming_birthdays was the last operation
Queried == last.op = "get_upcoming_birthdays"

\* it returned a list
Returned == Queried /\ last.out = None

\* C1: get_upcoming_birthdays never fails, and returns an entry for a contact
\* if and only if the contact has a birthday whose next occurrence is within
\* today and today + 7 days.
C1_UpcomingIffInWindow ==
    Queried =>
        /\ last.out = None
        /\ \A i \in 1..Len(data) :
             (data[i].name \in ResultNames(last.result))
               <=> /\ data[i].birthday # Nothing
                   /\ InWindow(data[i].birthday[1].date, last.today[1])

\* the day count of the occurrence an entry of the result is about
OccurrenceOf(item) ==
    NextOccurrence(Rec(data, item.name).birthday[1].date, last.today[1])

\* the day count of the congratulation date an entry reports
ReportedOf(item) == _ymd2ord(strptime(item.congratulation_date)[1])

\* C2: every entry returned reports the occurrence + 2 days when the
\* occurrence is a Saturday, + 1 day when it is a Sunday, and the occurrence
\* itself otherwise; no reported date is a Saturday or a Sunday.
C2_WeekendShift ==
    Returned =>
        \A k \in 1..Len(last.result) :
            LET item == last.result[k]
                occ  == OccurrenceOf(item)
            IN  /\ strptime(item.congratulation_date) # Nothing
                /\ ReportedOf(item) =
                       occ + (CASE DayOfWeek(occ) = 5 -> 2
                                [] DayOfWeek(occ) = 6 -> 1
                                [] OTHER -> 0)
                /\ DayOfWeek(ReportedOf(item)) \notin {5, 6}

\* a list with a Saturday occurrence and a Sunday occurrence, both reported
\* on the Monday after
C2_Witness ==
    /\ Returned
    /\ \E k, l \in 1..Len(last.result) :
         /\ DayOfWeek(OccurrenceOf(last.result[k])) = 5
         /\ DayOfWeek(OccurrenceOf(last.result[l])) = 6
         /\ ReportedOf(last.result[k]) = ReportedOf(last.result[l])

\* C3: every line read by main prints a message and the loop reads the next
\* line; the loop ends only on exit or close, after Good bye!.
C3_LoopNeverFails ==
    [][ last'.op = "main" =>
          \/ pc' = "running" /\ last'.out # None
          \/ /\ pc' = "exited"
             /\ last'.out = MsgBye
             /\ last'.cmd \in {Some(CmdExit), Some(CmdClose)} ]_vars

TenDecimalDigits(text) ==
    Len(text) = 10 /\ \A i \in 1..10 : text[i] \in UnicodeDigits

\* C4 as stated: every add_phone a step takes appends the number when it is
\* exactly 10 decimal digits, and otherwise fails with the validation error,
\* the list unchanged.
C4_AddPhoneAsStated ==
    [][ \A n \in Names, p \in PhoneInputs :
          AddPhone(n, p) =>
            IF TenDecimalDigits(p)
            THEN /\ last'.out = None
                 /\ Rec(data', n).phones = Append(Rec(data, n).phones, p)
            ELSE /\ last'.out = ErrPhone
                 /\ Rec(data', n).phones = Rec(data, n).phones ]_vars

\* C4, amended: add_phone appends every string of exactly 10 decimal digits
\* that is not yet on the record; one that is on the record is appended again
\* by task_01 and rejected by task_02 with the "already exists" error, the
\* list unchanged; every other string is rejected with the validation error,
\* the list unchanged.
C4_AddPhone ==
    \A i \in 1..Len(data) : \A p \in PhoneInputs :
        LET rec    == data[i]
            r      == add_phone(variant, rec, p)
            onList == \E k \in 1..Len(rec.phones) : rec.phones[k] = p
        IN  IF TenDecimalDigits(p) /\ (variant = "task_01" \/ ~onList)
                 THEN r.err = None /\ r.rec = [rec EXCEPT !.phones = Append(@, p)]
            ELSE IF TenDecimalDigits(p)
                 THEN r.err = ErrExists /\ r.rec = rec
            ELSE r.err = ErrPhone /\ r.rec = rec

\* add_phone has rejected a number that is on the record
C4_Witness ==
    /\ last.op = "add_phone"
    /\ last.out = ErrExists
    /\ \E i \in 1..Len(data) : Len(data[i].phones) > 0

\* C5: every phone of every record of the store is exactly 10 decimal digits.
C5_PhonesValid ==
    \A i \in 1..Len(data) : \A k \in 1..Len(data[i].phones) :
        TenDecimalDigits(data[i].phones[k])

\* a malformed number was just rejected by a record that holds phones
C5_Witness ==
    /\ last.op \in {"add_phone", "edit_phone"}
    /\ last.out = ErrPhone
    /\ TotalPhones(data) = MaxPhones

\* no record holds a number twice
NoNumberTwice ==
    \A i \in 1..Len(data) : \A k, l \in 1..Len(data[i].phones) :
        k # l => data[i].phones[k] # data[i].phones[l]

\* C6: no record holds a number twice, and add_phone of a number on the record
\* fails with the duplicate error and leaves the list unchanged.
C6_NoDuplicates ==
    /\ []NoNumberTwice
    /\ [][ \A n \in Names, p \in ValidPhones :
             AddPhone(n, p)
               /\ (\E k \in 1..Len(Rec(data, n).phones) : Rec(data, n).phones[k] = p)
               => last'.out = ErrExists /\ data' = data ]_vars

\* C7: edit_phone with an old number that is not on the record changes nothing
\* and raises nothing, whatever the new number; the change command then
\* prints the message of a successful update.
C7_EditAbsentOld ==
    \A i \in 1..Len(data) : \A old \in LinePhones : \A new \in PhoneInputs :
        (\A k \in 1..Len(data[i].phones) : data[i].phones[k] # old)
          => /\ edit_phone(variant, data[i], old, new) = Ok(data[i])
             /\ variant = "task_02" =>
                  change_contact(<<data[i].name, old, new>>, data)
                      = Handled(data, MsgChanged)

\* change printed the message of a successful update for a contact without
\* phones, the only one of the book
C7_Witness ==
    /\ last.op = "main"
    /\ last.cmd = Some(CmdChange)
    /\ last.out = MsgChanged
    /\ Len(data) = 1
    /\ data[1].phones = <<>>

Position(d, name) == CHOOSE i \in 1..Len(d) : d[i].name = name

\* the entries of the list are in the order of the store, one per name at most
ResultInStoreOrder ==
    (Returned \/ (last.op = "main" /\ last.out = MsgUpcoming)) =>
        \A k, l \in 1..Len(last.result) :
            k < l => Position(data, last.result[k].name)
                       < Position(data, last.result[l].name)

KeysUnique ==
    \A i, j \in 1..Len(data) : i # j => data[i].name # data[j].name

\* the names that stay keep their order; a name that appears is the last
OrderKept ==
    /\ \A a, b \in Keys(data) \cap Keys(data') :
           Position(data, a) < Position(data, b)
             <=> Position(data', a) < Position(data', b)
    /\ \A a \in Keys(data') \ Keys(data) : Position(data', a) = Len(data')

\* C8: the list is in insertion order: the order in which the names present
\* were inserted since their last deletion (adding a name again keeps its
\* place, deleting and adding it moves it to the end), one entry per name.
C8_InsertionOrder ==
    [](ResultInStoreOrder /\ KeysUnique) /\ [][OrderKept]_vars

\* two entries, the first with the later congratulation date
C8_Witness ==
    /\ Returned
    /\ Len(last.result) = 2
    /\ ReportedOf(last.result[1]) > ReportedOf(last.result[2])

\* edit_phone(old_number, new_number) of the record under name, as a step
\* took it: rejected, the list is as before; successful, the old number is
\* gone, the new one is there and the list is as long as before
EditOutcome(name, old_number, new_number) ==
    LET before == Rec(data, name).phones
        after  == Rec(data', name).phones
        has(phones, p) == \E k \in 1..Len(phones) : phones[k] = p
    IN  has(before, old_number) =>
          IF last'.out # None
          THEN after = before /\ data' = data
          ELSE /\ ~has(after, old_number)
               /\ has(after, new_number)
               /\ Len(after) = Len(before)

\* C9: edit_phone is all or nothing: rejected, it leaves the list as it was,
\* the old number still there; successful, the old number is gone, the new one
\* is there and the list is as long as before.
C9_EditAllOrNothing ==
    [][ \A n \in Names, p \in ValidPhones, q \in PhoneInputs :
          EditPhone(n, p, q) => EditOutcome(n, p, q) ]_vars

CaughtErrors == {ErrUnpack, ErrPhone, ErrExists, ErrDate}

\* C10: a command whose handler ends in a caught error leaves the store as it
\* was.
C10_ErrorLeavesStore ==
    [][last'.op = "main" /\ last'.out \in CaughtErrors => data' = data]_vars

====
